---- MODULE Spec2Model ----
(***************************************************************************)
(* Model of the face-identity alignment loss (ArcFaceWrapper in            *)
(* ldm/modules/arcface_wrapper.py) and of the subject-file and range       *)
(* parsers of scripts/eval_utils.py.                                       *)
(*                                                                         *)
(* Tensors are sequences of row identifiers; an absent tensor (Python      *)
(* None) is the record None.  A loss value is a record naming the          *)
(* operation that produced it and the rows it was computed from.           *)
(***************************************************************************)
EXTENDS Integers, Sequences, FiniteSets, TLC

\* ---------------------------------------------------------------- bounds
\* Largest image batch handed to the localizer.
MaxBatch == 4
\* Largest number of flattened background crops the localizer returns.
MaxBg == 1
\* Largest number of lines of a subject file.
MaxLines == 3
\* Largest number of comma-separated parts of a range string.
MaxParts == 3
\* Largest number written in a range string.
MaxNum == 10

VARIABLES
    \* ---- ArcFaceWrapper
    gradEnabled,        \* torch's gradient-tracking mode
    gradStack,          \* the prev modes saved by the open set_grad_enabled blocks
    gradAtCall,         \* the mode when the call in progress started
    call,               \* "none" | "embed" | "loss": the public method in progress
    pc,                 \* position inside it
    which,              \* "ref" | "gen" | "direct": the batch embed_image_tensor works on
    eargs,              \* arguments of the embed_image_tensor invocation in progress
    largs,              \* arguments of the calc_arcface_align_loss call in progress
    loc,                \* what retinaface.crop_faces returned
    eret,               \* the 4-tuple embed_image_tensor is returning
    fg_faces_emb,       \* local of embed_image_tensor
    bg_faces_emb,       \* local of embed_image_tensor
    raising,            \* an exception is propagating out of arcface(...)
    refRes,             \* the 4-tuple embed_image_tensor returned for ref_images
    genRes,             \* the 4-tuple embed_image_tensor returned for aligned_images
    ref_fg_faces_emb,   \* local of calc_arcface_align_loss (tiled at line 111)
    loss_arcface_align, \* local of calc_arcface_align_loss
    cos,                \* the arguments F.cosine_embedding_loss was called with
    evalLog,            \* every arcface(...) evaluation of the call in progress
    outcome,            \* how the call ended
    \* ---- parse_subject_file
    sfile,              \* the lines of the subject file
    smethod,            \* the method argument
    sout,               \* how parse_subject_file ended, and what it returned
    \* ---- parse_range_str
    rparts,             \* the parts the range string was written from
    range_str,          \* the range string, a sequence of characters
    fix_1_offset,       \* the fix_1_offset argument
    rout                \* how parse_range_str ended, and what it returned

lossVars == <<gradEnabled, gradStack, gradAtCall, call, pc, which, eargs, largs, loc, eret,
              fg_faces_emb, bg_faces_emb, raising, refRes, genRes, ref_fg_faces_emb,
              loss_arcface_align, cos, evalLog, outcome>>
parseVars == <<sfile, smethod, sout>>
rangeVars == <<rparts, range_str, fix_1_offset, rout>>
vars == <<lossVars, parseVars, rangeVars>>

\* ------------------------------------------------------------- tensors
None == [some |-> FALSE, rows |-> <<>>]
Tensor(rows) == [some |-> TRUE, rows |-> rows]

RECURSIVE SortedSeq(_)
SortedSeq(S) ==
    IF S = {} THEN <<>>
    ELSE LET m == CHOOSE x \in S : \A y \in S : x <= y
         IN <<m>> \o SortedSeq(S \ {m})

\* Identifier of the crop (and of the embedding) of instance i of a batch.
BatchBase(w) == IF w = "ref" THEN 100 ELSE 200
BgBase(w) == IF w = "ref" THEN 300 ELSE 400

\* The embedding arcface computes for one crop.
EmbOf(c) == 1000 + c

\* A 4-tuple returned by crop_faces or by embed_image_tensor.
Tuple4(a, b, c, d) == [fg |-> a, bg |-> b, bboxes |-> c, failed |-> d]
NoTuple == Tuple4(None, None, None, <<>>)

\* Loss values.
Zero == [op |-> "zero", arg |-> <<>>]
NoLoss == [op |-> "none", arg |-> <<>>]

NoArgs == [B |-> 0, embed_bg_faces |-> FALSE, use_whole_image_if_no_face |-> FALSE,
           enable_grad |-> FALSE]
NoLossArgs == [refB |-> 0, genB |-> 0, suppress_bg_faces |-> FALSE,
               use_whole_image_if_no_face |-> FALSE]
NoCos == [called |-> FALSE, ref |-> <<>>, gen |-> <<>>]
NoOutcome == [kind |-> "none", align |-> NoLoss, bg |-> NoLoss, boxes |-> None,
              path |-> "none"]

\* --------------------------------------------------- the face localizer
\* RetinaFaceClient.crop_faces, by its contract: the instances in failedSet are
\* those without a detected face; every other instance gives one foreground
\* crop and one bounding box, in batch order; nbg background crops, flattened.
\* The foreground crops are None when no instance gave one.
crop_faces(w, B, failedSet, nbg) ==
    LET ok == SortedSeq((0 .. B - 1) \ failedSet)
        crops == [k \in 1 .. Len(ok) |-> BatchBase(w) + ok[k]]
        bgs == [k \in 1 .. nbg |-> BgBase(w) + k]
    IN Tuple4(IF Len(ok) = 0 THEN None ELSE Tensor(crops),
              IF nbg = 0 THEN None ELSE Tensor(bgs),
              Tensor(crops),
              SortedSeq(failedSet))

\* The failed sets crop_faces may report for a batch of B images: with
\* use_whole_image_if_no_face an image without a face is cropped whole.
FailedSets(B, use_whole) == IF use_whole THEN {{}} ELSE SUBSET (0 .. B - 1)

\* ------------------------------------------------- embed_image_tensor
\* SentinelResult losing the failed-instance list.
SentinelResultNoFailed(failed) == Tuple4(None, None, None, <<>>)

\* Line 61: the result when crop_faces found no foreground face.
SentinelResult(failed) == Tuple4(None, None, None, failed)

\* Lines 64-68: grayscale conversion and resize, row by row.
ToGray(crops) == [k \in 1 .. Len(crops) |-> crops[k]]

\* Lines 70, 76: self.arcface(...), one embedding per crop, in order.
arcface(gray) == [k \in 1 .. Len(gray) |-> EmbOf(gray[k])]

\* EmbedBgCond without the embed_bg_faces test.
EmbedBgCondNoFlag(embed_bg_faces, bg_face_crops_flat) == bg_face_crops_flat.some

\* Line 72: whether the background crops are embedded.
EmbedBgCond(embed_bg_faces, bg_face_crops_flat) ==
    embed_bg_faces /\ bg_face_crops_flat.some

\* RestoreGrad as a plain global switch: nothing is put back.
RestoreGradGlobal(prev, cur) == cur

\* torch.set_grad_enabled.__exit__: the mode in force after the with block.
RestoreGrad(prev, cur) == prev

InitLoss ==
    /\ gradEnabled \in BOOLEAN
    /\ gradStack = <<>>
    /\ gradAtCall = FALSE
    /\ call = "none"
    /\ pc = "idle"
    /\ which = "none"
    /\ eargs = NoArgs
    /\ largs = NoLossArgs
    /\ loc = NoTuple
    /\ eret = NoTuple
    /\ fg_faces_emb = None
    /\ bg_faces_emb = None
    /\ raising = FALSE
    /\ refRes = NoTuple
    /\ genRes = NoTuple
    /\ ref_fg_faces_emb = None
    /\ loss_arcface_align = NoLoss
    /\ cos = NoCos
    /\ evalLog = <<>>
    /\ outcome = NoOutcome

\* What a call resets: every local of the previous call.
FreshLocals ==
    /\ gradStack' = <<>>
    /\ loc' = NoTuple
    /\ eret' = NoTuple
    /\ fg_faces_emb' = None
    /\ bg_faces_emb' = None
    /\ raising' = FALSE
    /\ refRes' = NoTuple
    /\ genRes' = NoTuple
    /\ ref_fg_faces_emb' = None
    /\ loss_arcface_align' = NoLoss
    /\ cos' = NoCos
    /\ evalLog' = <<>>
    /\ outcome' = NoOutcome

\* A caller invokes embed_image_tensor directly.
CallEmbed(B, embed_bg, use_whole, enable_grad) ==
    /\ pc = "idle"
    /\ call' = "embed"
    /\ which' = "direct"
    /\ eargs' = [B |-> B, embed_bg_faces |-> embed_bg,
                 use_whole_image_if_no_face |-> use_whole, enable_grad |-> enable_grad]
    /\ largs' = NoLossArgs
    /\ gradAtCall' = gradEnabled
    /\ pc' = "crop"
    /\ FreshLocals
    /\ UNCHANGED gradEnabled
    /\ UNCHANGED <<parseVars, rangeVars>>

\* A caller invokes calc_arcface_align_loss; lines 89-91 start the first
\* embed_image_tensor, on ref_images.
CallLoss(refB, genB, suppress, use_whole) ==
    /\ pc = "idle"
    /\ call' = "loss"
    /\ largs' = [refB |-> refB, genB |-> genB, suppress_bg_faces |-> suppress,
                 use_whole_image_if_no_face |-> use_whole]
    /\ which' = "ref"
    /\ eargs' = [B |-> refB, embed_bg_faces |-> FALSE,
                 use_whole_image_if_no_face |-> FALSE, enable_grad |-> FALSE]
    /\ gradAtCall' = gradEnabled
    /\ pc' = "crop"
    /\ FreshLocals
    /\ UNCHANGED gradEnabled
    /\ UNCHANGED <<parseVars, rangeVars>>

\* Lines 55-61: crop the faces; return the sentinel when there is no
\* foreground crop.
CropFaces ==
    /\ pc = "crop"
    /\ \E F \in FailedSets(eargs.B, eargs.use_whole_image_if_no_face), nbg \in 0 .. MaxBg :
         LET r == crop_faces(which, eargs.B, F, nbg)
         IN /\ loc' = r
            /\ IF ~r.fg.some
               THEN /\ eret' = SentinelResult(r.failed)
                    /\ pc' = "ret"
               ELSE /\ eret' = eret
                    /\ pc' = "fg_enter"
    /\ UNCHANGED <<gradEnabled, gradStack, gradAtCall, call, which, eargs, largs,
                   fg_faces_emb, bg_faces_emb, raising, refRes, genRes, ref_fg_faces_emb,
                   loss_arcface_align, cos, evalLog, outcome>>
    /\ UNCHANGED <<parseVars, rangeVars>>

\* Lines 69, 75: `with torch.set_grad_enabled(enable_grad):` saves the mode
\* in force and sets the requested one.
GradEnter ==
    /\ pc \in {"fg_enter", "bg_enter"}
    /\ gradStack' = Append(gradStack, gradEnabled)
    /\ gradEnabled' = eargs.enable_grad
    /\ pc' = IF pc = "fg_enter" THEN "fg_eval" ELSE "bg_eval"
    /\ UNCHANGED <<gradAtCall, call, which, eargs, largs, loc, eret, fg_faces_emb,
                   bg_faces_emb, raising, refRes, genRes, ref_fg_faces_emb,
                   loss_arcface_align, cos, evalLog, outcome>>
    /\ UNCHANGED <<parseVars, rangeVars>>

\* Lines 70, 76: the embedder runs on the grayscale crops.
ArcfaceEval ==
    /\ pc \in {"fg_eval", "bg_eval"}
    /\ raising' = FALSE
    /\ evalLog' = Append(evalLog, [batch |-> which,
                                   kind |-> IF pc = "fg_eval" THEN "fg" ELSE "bg",
                                   grad |-> gradEnabled])
    /\ IF pc = "fg_eval"
       THEN /\ fg_faces_emb' = Tensor(arcface(ToGray(loc.fg.rows)))
            /\ bg_faces_emb' = bg_faces_emb
            /\ pc' = "fg_exit"
       ELSE /\ bg_faces_emb' = Tensor(arcface(ToGray(loc.bg.rows)))
            /\ fg_faces_emb' = fg_faces_emb
            /\ pc' = "bg_exit"
    /\ UNCHANGED <<gradEnabled, gradStack, gradAtCall, call, which, eargs, largs, loc,
                   eret, refRes, genRes, ref_fg_faces_emb, loss_arcface_align, cos,
                   outcome>>
    /\ UNCHANGED <<parseVars, rangeVars>>

\* Lines 70, 76: the embedder raises (out of memory, a bad dtype, ...).
ArcfaceRaise ==
    /\ pc \in {"fg_eval", "bg_eval"}
    /\ raising' = TRUE
    /\ evalLog' = Append(evalLog, [batch |-> which,
                                   kind |-> IF pc = "fg_eval" THEN "fg" ELSE "bg",
                                   grad |-> gradEnabled])
    /\ pc' = IF pc = "fg_eval" THEN "fg_exit" ELSE "bg_exit"
    /\ UNCHANGED <<gradEnabled, gradStack, gradAtCall, call, which, eargs, largs, loc,
                   eret, fg_faces_emb, bg_faces_emb, refRes, genRes, ref_fg_faces_emb,
                   loss_arcface_align, cos, outcome>>
    /\ UNCHANGED <<parseVars, rangeVars>>

\* Leaving the with block, normally or by the exception: the saved mode is
\* put back; an exception then leaves the whole call.
GradExit ==
    /\ pc \in {"fg_exit", "bg_exit"}
    /\ gradEnabled' = RestoreGrad(gradStack[Len(gradStack)], gradEnabled)
    /\ gradStack' = SubSeq(gradStack, 1, Len(gradStack) - 1)
    /\ IF raising
       THEN /\ pc' = "done"
            /\ outcome' = [NoOutcome EXCEPT !.kind = "EmbedderError", !.path = which]
       ELSE /\ pc' = IF pc = "fg_exit" THEN "bg_cond" ELSE "pack"
            /\ outcome' = outcome
    /\ UNCHANGED <<gradAtCall, call, which, eargs, largs, loc, eret, fg_faces_emb,
                   bg_faces_emb, raising, refRes, genRes, ref_fg_faces_emb,
                   loss_arcface_align, cos, evalLog>>
    /\ UNCHANGED <<parseVars, rangeVars>>

\* Lines 72, 77-78: embed the background crops, or leave bg_faces_emb None.
BgCond ==
    /\ pc = "bg_cond"
    /\ IF EmbedBgCond(eargs.embed_bg_faces, loc.bg)
       THEN /\ pc' = "bg_enter"
            /\ bg_faces_emb' = bg_faces_emb
       ELSE /\ pc' = "pack"
            /\ bg_faces_emb' = None
    /\ UNCHANGED <<gradEnabled, gradStack, gradAtCall, call, which, eargs, largs, loc,
                   eret, fg_faces_emb, raising, refRes, genRes, ref_fg_faces_emb,
                   loss_arcface_align, cos, evalLog, outcome>>
    /\ UNCHANGED <<parseVars, rangeVars>>

\* Line 80.
EmbedPack ==
    /\ pc = "pack"
    /\ eret' = Tuple4(fg_faces_emb, bg_faces_emb, loc.bboxes, loc.failed)
    /\ pc' = "ret"
    /\ UNCHANGED <<gradEnabled, gradStack, gradAtCall, call, which, eargs, largs, loc,
                   fg_faces_emb, bg_faces_emb, raising, refRes, genRes, ref_fg_faces_emb,
                   loss_arcface_align, cos, evalLog, outcome>>
    /\ UNCHANGED <<parseVars, rangeVars>>

\* --------------------------------------------- calc_arcface_align_loss
\* AnyFailed testing the reference batch only.
AnyFailedRefOnly(ref_failed_inst_indices, aligned_failed_inst_indices) ==
    Len(ref_failed_inst_indices) > 0

\* Lines 100, 103: the failure short-circuit is taken.
AnyFailed(ref_failed_inst_indices, aligned_failed_inst_indices) ==
    Len(ref_failed_inst_indices) > 0 \/ Len(aligned_failed_inst_indices) > 0

\* Tensor.repeat(k, 1) on an [n, d] tensor: the n rows, k times over.
RECURSIVE Repeat(_, _)
Repeat(rows, k) == IF k <= 0 THEN <<>> ELSE rows \o Repeat(rows, k - 1)

\* TileRef as repeat_interleave: each row repeated in place.
TileRefInterleave(rows, m) ==
    LET k == m \div Len(rows)
    IN [i \in 1 .. (k * Len(rows)) |-> rows[((i - 1) \div k) + 1]]

\* Line 111: the reference embeddings tiled for m generated embeddings.
TileRef(rows, m) == Repeat(rows, m \div Len(rows))

\* F.cosine_embedding_loss multiplies its two inputs elementwise: their row
\* counts must be equal, or one of them 1 (broadcast).
Broadcastable(r, g) == Len(r) = Len(g) \/ Len(r) = 1 \/ Len(g) = 1

\* The (reference row, generated row) pairs the cosine loss averages over.
CosinePairs(r, g) ==
    LET n == IF Len(r) >= Len(g) THEN Len(r) ELSE Len(g)
    IN [k \in 1 .. n |-> <<IF Len(r) = 1 THEN r[1] ELSE r[k],
                           IF Len(g) = 1 THEN g[1] ELSE g[k]>>]

\* BgSuppressLoss with no zero default when no background face was found.
BgSuppressLossNoDefault(suppress_bg_faces, aligned_bg_faces_emb) ==
    IF ~suppress_bg_faces THEN Zero
    ELSE IF aligned_bg_faces_emb.some
         THEN [op |-> "mean_sq", arg |-> aligned_bg_faces_emb.rows]
         ELSE NoLoss

\* Lines 117-125: the background-suppression loss.
BgSuppressLoss(suppress_bg_faces, aligned_bg_faces_emb) ==
    IF suppress_bg_faces /\ aligned_bg_faces_emb.some
    THEN [op |-> "mean_sq", arg |-> aligned_bg_faces_emb.rows]
    ELSE Zero

\* embed_image_tensor returns to its caller: lines 89 and 94 unpack the
\* tuple, and lines 94-97 start the second invocation, on aligned_images.
EmbedReturn ==
    /\ pc = "ret"
    /\ IF which = "ref"
       THEN /\ refRes' = eret
            /\ ref_fg_faces_emb' = eret.fg
            /\ genRes' = genRes
            /\ which' = "gen"
            /\ eargs' = [B |-> largs.genB, embed_bg_faces |-> largs.suppress_bg_faces,
                         use_whole_image_if_no_face |-> largs.use_whole_image_if_no_face,
                         enable_grad |-> TRUE]
            /\ pc' = "crop"
            /\ outcome' = outcome
            /\ loc' = NoTuple
            /\ fg_faces_emb' = None
            /\ bg_faces_emb' = None
            /\ eret' = NoTuple
       ELSE IF which = "gen"
       THEN /\ genRes' = eret
            /\ pc' = "check_failed"
            /\ outcome' = outcome
            /\ UNCHANGED <<refRes, ref_fg_faces_emb, which, eargs, loc, fg_faces_emb,
                           bg_faces_emb, eret>>
       ELSE /\ pc' = "done"
            /\ outcome' = [NoOutcome EXCEPT !.kind = "embed_returned", !.path = "direct"]
            /\ UNCHANGED <<refRes, genRes, ref_fg_faces_emb, which, eargs, loc,
                           fg_faces_emb, bg_faces_emb, eret>>
    /\ UNCHANGED <<gradEnabled, gradStack, gradAtCall, call, largs, raising,
                   loss_arcface_align, cos, evalLog>>
    /\ UNCHANGED <<parseVars, rangeVars>>

\* Lines 99-105: the failure short-circuit.
CheckFailed ==
    /\ pc = "check_failed"
    /\ IF AnyFailed(refRes.failed, genRes.failed)
       THEN /\ outcome' = [kind |-> "returned", align |-> Zero, bg |-> Zero,
                           boxes |-> None, path |-> "short_circuit"]
            /\ pc' = "done"
       ELSE /\ outcome' = outcome
            /\ pc' = "tile"
    /\ UNCHANGED <<gradEnabled, gradStack, gradAtCall, call, which, eargs, largs, loc,
                   eret, fg_faces_emb, bg_faces_emb, raising, refRes, genRes,
                   ref_fg_faces_emb, loss_arcface_align, cos, evalLog>>
    /\ UNCHANGED <<parseVars, rangeVars>>

\* Lines 110-111: len() of both embeddings (a TypeError on None), then the
\* reference embeddings are repeated when they are fewer.
Tile ==
    /\ pc = "tile"
    /\ IF ~ref_fg_faces_emb.some \/ ~genRes.fg.some
       THEN /\ outcome' = [NoOutcome EXCEPT !.kind = "TypeError", !.path = "tile"]
            /\ pc' = "done"
            /\ ref_fg_faces_emb' = ref_fg_faces_emb
       ELSE /\ outcome' = outcome
            /\ pc' = "cosine"
            /\ ref_fg_faces_emb' =
                 IF Len(ref_fg_faces_emb.rows) < Len(genRes.fg.rows)
                 THEN Tensor(TileRef(ref_fg_faces_emb.rows, Len(genRes.fg.rows)))
                 ELSE ref_fg_faces_emb
    /\ UNCHANGED <<gradEnabled, gradStack, gradAtCall, call, which, eargs, largs, loc,
                   eret, fg_faces_emb, bg_faces_emb, raising, refRes, genRes,
                   loss_arcface_align, cos, evalLog>>
    /\ UNCHANGED <<parseVars, rangeVars>>

\* Lines 114-115: the cosine loss; torch raises a RuntimeError on row counts
\* that do not broadcast.
CosineLoss ==
    /\ pc = "cosine"
    /\ cos' = [called |-> TRUE, ref |-> ref_fg_faces_emb.rows, gen |-> genRes.fg.rows]
    /\ IF Broadcastable(ref_fg_faces_emb.rows, genRes.fg.rows)
       THEN /\ loss_arcface_align' =
                 [op |-> "cosine",
                  arg |-> CosinePairs(ref_fg_faces_emb.rows, genRes.fg.rows)]
            /\ pc' = "bg_loss"
            /\ outcome' = outcome
       ELSE /\ loss_arcface_align' = loss_arcface_align
            /\ pc' = "done"
            /\ outcome' = [NoOutcome EXCEPT !.kind = "RuntimeError", !.path = "cosine"]
    /\ UNCHANGED <<gradEnabled, gradStack, gradAtCall, call, which, eargs, largs, loc,
                   eret, fg_faces_emb, bg_faces_emb, raising, refRes, genRes,
                   ref_fg_faces_emb, evalLog>>
    /\ UNCHANGED <<parseVars, rangeVars>>

\* Lines 117-127: the background-suppression loss and the return.
BgLoss ==
    /\ pc = "bg_loss"
    /\ outcome' = [kind |-> "returned", align |-> loss_arcface_align,
                   bg |-> BgSuppressLoss(largs.suppress_bg_faces, genRes.bg),
                   boxes |-> genRes.bboxes, path |-> "full"]
    /\ pc' = "done"
    /\ UNCHANGED <<gradEnabled, gradStack, gradAtCall, call, which, eargs, largs, loc,
                   eret, fg_faces_emb, bg_faces_emb, raising, refRes, genRes,
                   ref_fg_faces_emb, loss_arcface_align, cos, evalLog>>
    /\ UNCHANGED <<parseVars, rangeVars>>

\* The caller takes the result (or the exception); the wrapper is ready for
\* the next call.  Nothing of a call outlives it but the gradient mode.
Return ==
    /\ pc = "done"
    /\ pc' = "idle"
    /\ call' = "none"
    /\ which' = "none"
    /\ eargs' = NoArgs
    /\ largs' = NoLossArgs
    /\ gradAtCall' = FALSE
    /\ FreshLocals
    /\ UNCHANGED gradEnabled
    /\ UNCHANGED <<parseVars, rangeVars>>

\* -------------------------------------------------- parse_subject_file
\* A Python list; an unset variable is None.
PyList(xs) == [some |-> TRUE, rows |-> xs]

\* A line of the subject file, after strip(): var is the variable a
\* `set -l/-a <var> ...` line names ("" for any other line), toks the tokens
\* split_string finds in its value (numerals stand for themselves), mat
\* whether the regex of line 62 matches (it needs a value of 3 characters).
Line(var, toks, mat) == [var |-> var, toks |-> toks, mat |-> mat]

SubjectLines ==
    {Line("subjects", t, TRUE) : t \in {<<1>>, <<1, 2>>}}
    \cup {Line("db_prompts", <<7>>, TRUE), Line("cls_tokens", <<8>>, TRUE)}
    \cup {Line("broad_classes", t, TRUE) : t \in {<<0>>, <<1, 0>>}}
    \cup {Line("sel_set", t, TRUE) : t \in {<<2>>, <<1, 2>>}}
    \cup {Line("sel_set", <<1>>, FALSE), Line("other_var", <<5>>, TRUE),
          Line("", <<>>, FALSE)}

SeqsUpTo(S, n) == UNION {[1 .. k -> S] : k \in 0 .. n}

ParseState0 == [subjects |-> None, class_tokens |-> None, broad_classes |-> None,
                sel_set |-> None]

\* Lines 60-77: what one line assigns.
ParseLine(st, line, method) ==
    IF line.var = "" \/ ~line.mat THEN st
    ELSE IF line.var = "subjects" THEN [st EXCEPT !.subjects = PyList(line.toks)]
    ELSE IF line.var = "db_prompts" /\ method = "db"
         THEN [st EXCEPT !.class_tokens = PyList(line.toks)]
    ELSE IF line.var = "cls_tokens" /\ method # "db"
         THEN [st EXCEPT !.class_tokens = PyList(line.toks)]
    ELSE IF line.var = "broad_classes"
         THEN [st EXCEPT !.broad_classes = PyList(line.toks)]
    ELSE IF line.var = "sel_set"
         THEN [st EXCEPT !.sel_set =
                   PyList([k \in 1 .. Len(line.toks) |-> line.toks[k] - 1])]
    ELSE st

\* Lines 59-77: the loop over the lines.
RECURSIVE ParseLines(_, _, _, _)
ParseLines(lines, i, st, method) ==
    IF i > Len(lines) THEN st
    ELSE ParseLines(lines, i + 1, ParseLine(st, lines[i], method), method)

Raised(kind, msg) == [kind |-> kind, msg |-> msg, value |-> ParseState0]

\* Lines 79-89: the defaults, the check and the return.
ParseFinish(st) ==
    IF ~st.broad_classes.some /\ ~st.subjects.some
    THEN Raised("TypeError", "'NoneType' object is not iterable")
    ELSE LET st1 == IF st.broad_classes.some THEN st
                    ELSE [st EXCEPT !.broad_classes =
                              PyList([k \in 1 .. Len(st.subjects.rows) |-> 1])]
         IN IF ~st1.sel_set.some /\ ~st1.subjects.some
            THEN Raised("TypeError", "object of type 'NoneType' has no len()")
            ELSE LET st2 == IF st1.sel_set.some THEN st1
                            ELSE [st1 EXCEPT !.sel_set =
                                      PyList([k \in 1 .. Len(st1.subjects.rows) |-> k - 1])]
                 IN IF ~st2.subjects.some \/ ~st2.class_tokens.some
                    THEN Raised("ValueError", "subjects or db_prompts is None")
                    ELSE [kind |-> "returned", msg |-> "", value |-> st2]

parse_subject_file(lines, method) ==
    ParseFinish(ParseLines(lines, 1, ParseState0, method))

NoSout == [kind |-> "none", msg |-> "", value |-> ParseState0]

InitParse ==
    /\ sfile \in SeqsUpTo(SubjectLines, MaxLines)
    /\ smethod \in {"db", "ada"}
    /\ sout = NoSout

IdleParse ==
    /\ sfile = <<>>
    /\ smethod = "db"
    /\ sout = NoSout

\* One call of parse_subject_file on the file.
ParseSubjectFile ==
    /\ sout.kind = "none"
    /\ sout' = parse_subject_file(sfile, smethod)
    /\ UNCHANGED <<sfile, smethod>>

\* ----------------------------------------------------- parse_range_str
DigitChars == <<"0", "1", "2", "3", "4", "5", "6", "7", "8", "9">>

\* str(n), n >= 0.
RECURSIVE Digits(_)
Digits(n) ==
    IF n < 10 THEN <<DigitChars[n + 1]>>
    ELSE Digits(n \div 10) \o <<DigitChars[(n % 10) + 1]>>

IsDigit(c) == \E d \in 1 .. 10 : DigitChars[d] = c
DigitVal(c) == (CHOOSE d \in 1 .. 10 : DigitChars[d] = c) - 1

\* int(s) on a string of digits; ok is FALSE where int raises ValueError.
RECURSIVE IntVal(_, _)
IntVal(cs, acc) ==
    IF cs = <<>> THEN acc ELSE IntVal(Tail(cs), 10 * acc + DigitVal(Head(cs)))
int(cs) ==
    IF cs # <<>> /\ \A k \in 1 .. Len(cs) : IsDigit(cs[k])
    THEN [ok |-> TRUE, val |-> IntVal(cs, 0)]
    ELSE [ok |-> FALSE, val |-> 0]

\* str.split(sep): the pieces between the separators, in order.
RECURSIVE SplitFrom(_, _, _, _)
SplitFrom(cs, sep, i, cur) ==
    IF i > Len(cs) THEN <<cur>>
    ELSE IF cs[i] = sep THEN <<cur>> \o SplitFrom(cs, sep, i + 1, <<>>)
    ELSE SplitFrom(cs, sep, i + 1, Append(cur, cs[i]))
split(cs, sep) == SplitFrom(cs, sep, 1, <<>>)

\* RangeList as the half-open range(a, b).
RangeListExclusive(a, b) == [k \in 1 .. (b - a) |-> a + k - 1]

\* list(range(a, b + 1)).
RangeList(a, b) == [k \in 1 .. (b - a + 1) |-> a + k - 1]

RangeError == [kind |-> "ValueError", value |-> <<>>]

\* Lines 106-112: what one part appends to result.
RangePart(part, offset, res) ==
    IF \E k \in 1 .. Len(part) : part[k] = "-"
    THEN LET ab == split(part, "-")
         IN IF Len(ab) # 2 THEN RangeError
            ELSE LET a == int(ab[1])
                     b == int(ab[2])
                 IN IF ~a.ok \/ ~b.ok THEN RangeError
                    ELSE [kind |-> "returned",
                          value |-> res \o RangeList(a.val - offset, b.val - offset)]
    ELSE LET a == int(part)
         IN IF ~a.ok THEN RangeError
            ELSE [kind |-> "returned", value |-> Append(res, a.val - offset)]

\* Line 105: the loop over the parts.
RECURSIVE RangeLoop(_, _, _, _)
RangeLoop(parts, i, offset, res) ==
    IF i > Len(parts) THEN [kind |-> "returned", value |-> res]
    ELSE LET r == RangePart(parts[i], offset, res)
         IN IF r.kind # "returned" THEN r
            ELSE RangeLoop(parts, i + 1, offset, r.value)

parse_range_str(str, fix) ==
    RangeLoop(split(str, ","), 1, IF fix THEN 1 ELSE 0, <<>>)

\* The numbers written in the range strings.
Nums == {0, 3, 7, 8, MaxNum}

\* The parts of the range strings: a number, an inclusive range, or (not a
\* part parse_range_str is written for) a number with a minus sign.
RangeParts ==
    {[kind |-> "single", a |-> n, b |-> n] : n \in Nums}
    \cup {[kind |-> "range", a |-> p[1], b |-> p[2]] :
             p \in {q \in Nums \X Nums : q[1] <= q[2]}}
    \cup {[kind |-> "neg", a |-> 3, b |-> 3]}

PartStr(p) ==
    IF p.kind = "single" THEN Digits(p.a)
    ELSE IF p.kind = "range" THEN Digits(p.a) \o <<"-">> \o Digits(p.b)
    ELSE <<"-">> \o Digits(p.a)

\* ",".join of the parts.
RECURSIVE JoinParts(_)
JoinParts(ps) ==
    IF Len(ps) = 1 THEN PartStr(ps[1])
    ELSE PartStr(ps[1]) \o <<",">> \o JoinParts(Tail(ps))

NoRout == [kind |-> "none", value |-> <<>>]

InitRange ==
    /\ rparts \in SeqsUpTo(RangeParts, MaxParts) \ {<<>>}
    /\ range_str = JoinParts(rparts)
    /\ fix_1_offset \in BOOLEAN
    /\ rout = NoRout

IdleRange ==
    /\ rparts = <<>>
    /\ range_str = <<>>
    /\ fix_1_offset = TRUE
    /\ rout = NoRout

\* One call of parse_range_str on the string.
ParseRangeStr ==
    /\ rout.kind = "none"
    /\ rout' = parse_range_str(range_str, fix_1_offset)
    /\ UNCHANGED <<rparts, range_str, fix_1_offset>>

\* ------------------------------------------------------ specifications
IdleLoss ==
    /\ InitLoss
    /\ gradEnabled = TRUE

Next ==
    \/ \E B \in 0 .. MaxBatch, eb \in BOOLEAN, uw \in BOOLEAN, eg \in BOOLEAN :
         CallEmbed(B, eb, uw, eg)
    \/ \E rB \in 0 .. MaxBatch, gB \in 0 .. MaxBatch, sb \in BOOLEAN, uw \in BOOLEAN :
         CallLoss(rB, gB, sb, uw)
    \/ CropFaces
    \/ GradEnter
    \/ ArcfaceEval
    \/ ArcfaceRaise
    \/ GradExit
    \/ BgCond
    \/ EmbedPack
    \/ EmbedReturn
    \/ CheckFailed
    \/ Tile
    \/ CosineLoss
    \/ BgLoss
    \/ Return

\* The alignment loss: any sequence of embed_image_tensor and
\* calc_arcface_align_loss calls.
Init == InitLoss /\ IdleParse /\ IdleRange
Spec == Init /\ [][Next]_vars

\* parse_subject_file on every subject file of at most MaxLines lines.
InitP == IdleLoss /\ InitParse /\ IdleRange
NextParse == ParseSubjectFile /\ UNCHANGED <<lossVars, rangeVars>>
SpecParse == InitP /\ [][NextParse]_vars

\* parse_range_str on every range string of at most MaxParts parts.
InitR == IdleLoss /\ IdleParse /\ InitRange
NextRange == ParseRangeStr /\ UNCHANGED <<lossVars, parseVars>>
SpecRange == InitR /\ [][NextRange]_vars

\* ---------------------------------------------------------- properties
\* Both embed_image_tensor invocations of the calc_arcface_align_loss call
\* in progress have returned.
BothReturned ==
    /\ call = "loss"
    /\ \/ pc \in {"check_failed", "tile", "cosine", "bg_loss"}
       \/ pc = "done" /\ outcome.kind # "EmbedderError"

\* Both have returned, and neither reported a failed instance nor the sentinel.
NoFailure ==
    /\ BothReturned
    /\ Len(refRes.failed) = 0 /\ Len(genRes.failed) = 0
    /\ refRes.fg.some /\ genRes.fg.some

RefCount == Len(refRes.fg.rows)
GenCount == Len(genRes.fg.rows)

\* C1: once both embed_image_tensor calls have returned and either failed
\* list is non-empty, calc_arcface_align_loss does nothing but return a zero
\* alignment loss, a zero background loss and None for the bounding boxes;
\* the cosine loss is never called.
C1_FailureShortCircuit ==
    (BothReturned /\ (Len(refRes.failed) > 0 \/ Len(genRes.failed) > 0))
    => /\ pc \in {"check_failed", "done"}
       /\ ~cos.called
       /\ loss_arcface_align.op = "none"
       /\ pc = "done" => /\ outcome.kind = "returned"
                         /\ outcome.align.op = "zero"
                         /\ outcome.bg.op = "zero"
                         /\ ~outcome.boxes.some

\* C1 witness: the short-circuit taken on a generated batch that is only
\* partly failed, with background suppression requested.
C1_Witness ==
    /\ call = "loss" /\ pc = "done" /\ outcome.path = "short_circuit"
    /\ Len(refRes.failed) = 0 /\ refRes.fg.some
    /\ Len(genRes.failed) > 0 /\ genRes.fg.some
    /\ largs.suppress_bg_faces

\* C2: with no failed instance, n < m and m not a multiple of n, the call
\* ends in a batch-size error raised before the cosine loss is called.
C2_BatchSizeErrorBeforeLoss ==
    (NoFailure /\ RefCount < GenCount /\ GenCount % RefCount # 0)
    => /\ ~cos.called
       /\ pc = "done" => outcome.kind = "BatchSizeError"

\* C3: with no failed instance, n <= m and m a multiple of n, the reference
\* embeddings handed to the cosine loss have m rows, row i being reference
\* row i mod n, unchanged when n = m, and the loss pairs row i with generated
\* row i.
C3_TiledReference ==
    (NoFailure /\ cos.called /\ RefCount <= GenCount /\ GenCount % RefCount = 0)
    => /\ Len(cos.ref) = GenCount
       /\ \A i \in 0 .. GenCount - 1 : cos.ref[i + 1] = refRes.fg.rows[(i % RefCount) + 1]
       /\ cos.gen = genRes.fg.rows
       /\ RefCount = GenCount => cos.ref = refRes.fg.rows
       /\ pc \in {"bg_loss", "done"}
          => /\ loss_arcface_align.op = "cosine"
             /\ Len(loss_arcface_align.arg) = GenCount
             /\ \A k \in 1 .. GenCount :
                  loss_arcface_align.arg[k] = <<cos.ref[k], genRes.fg.rows[k]>>

\* C3 witness: two reference embeddings tiled for four generated ones.
C3_Witness ==
    /\ NoFailure /\ cos.called /\ pc = "done"
    /\ RefCount = 2 /\ GenCount = 4

\* C4: in a calc_arcface_align_loss call with suppress_bg_faces false the
\* embedder never runs on background crops, and runs at most once per batch.
C4_NoBackgroundEmbedding ==
    (call = "loss" /\ ~largs.suppress_bg_faces)
    => /\ \A k \in 1 .. Len(evalLog) : evalLog[k].kind = "fg"
       /\ \A j, k \in 1 .. Len(evalLog) : evalLog[j].batch = evalLog[k].batch => j = k

\* C4 witness: such a call completed although the localizer returned
\* background crops for the generated batch.
C4_Witness ==
    /\ call = "loss" /\ ~largs.suppress_bg_faces
    /\ pc = "done" /\ outcome.path = "full"
    /\ loc.bg.some /\ Len(evalLog) = 2

\* C5: when the call has computed the cosine loss and returns, the
\* background loss is the mean of squares of the background embeddings if
\* suppression was requested and they exist, zero if it was requested and
\* there are none, zero if it was not requested; the alignment loss and the
\* generated bounding boxes are returned in all three cases.
C5_BackgroundLossCases ==
    (call = "loss" /\ pc = "done" /\ loss_arcface_align.op = "cosine")
    => /\ outcome.kind = "returned"
       /\ outcome.align = loss_arcface_align
       /\ outcome.boxes = genRes.bboxes
       /\ outcome.boxes.some
       /\ (largs.suppress_bg_faces /\ genRes.bg.some)
          => (outcome.bg.op = "mean_sq" /\ outcome.bg.arg = genRes.bg.rows)
       /\ (largs.suppress_bg_faces /\ ~genRes.bg.some) => outcome.bg.op = "zero"
       /\ ~largs.suppress_bg_faces => outcome.bg.op = "zero"

\* C5 witness: suppression requested and the localizer found no background
\* crop.
C5_Witness ==
    /\ call = "loss" /\ pc = "done" /\ loss_arcface_align.op = "cosine"
    /\ largs.suppress_bg_faces /\ ~loc.bg.some /\ ~genRes.bg.some

\* C6: when crop_faces returns None for the foreground crops,
\* embed_image_tensor returns None for the embeddings and the bounding boxes
\* and the failed list of crop_faces unchanged, without running the embedder
\* on this batch.
C6_SentinelResult ==
    (pc = "ret" /\ ~loc.fg.some)
    => /\ ~eret.fg.some /\ ~eret.bg.some /\ ~eret.bboxes.some
       /\ eret.failed = loc.failed
       /\ \A k \in 1 .. Len(evalLog) : evalLog[k].batch # which

\* C6 witness: the sentinel returned although the localizer gave background
\* crops, with embed_bg_faces and enable_grad set and three failed instances.
C6_Witness ==
    /\ pc = "ret" /\ ~loc.fg.some
    /\ loc.bg.some /\ loc.bboxes.some
    /\ eargs.embed_bg_faces /\ eargs.enable_grad
    /\ Len(eret.failed) = 3

\* C7: outside the with blocks around arcface(...) the gradient mode is the
\* one in force when the call started, however the block was left; the
\* embedder runs with tracking off on the reference batch, on on the
\* generated batch, and as enable_grad says in a direct call.
C7_ScopedGradMode ==
    /\ (pc \notin {"idle", "fg_eval", "fg_exit", "bg_eval", "bg_exit"})
       => (gradEnabled = gradAtCall /\ gradStack = <<>>)
    /\ \A k \in 1 .. Len(evalLog) :
         /\ evalLog[k].batch = "ref" => ~evalLog[k].grad
         /\ evalLog[k].batch = "gen" => evalLog[k].grad
         /\ evalLog[k].batch = "direct" => evalLog[k].grad = eargs.enable_grad

\* C7 witness: a call started with tracking off ends by an exception raised
\* in the embedder on the generated batch's background crops.
C7_Witness ==
    /\ call = "loss" /\ pc = "done" /\ outcome.kind = "EmbedderError"
    /\ which = "gen" /\ ~gradAtCall
    /\ Len(evalLog) = 3 /\ evalLog[3].kind = "bg" /\ evalLog[3].grad

HasLine(var) == \E k \in 1 .. Len(sfile) : sfile[k].var = var
ClassTokenVar == IF smethod = "db" THEN "db_prompts" ELSE "cls_tokens"

\* C8: on a file without a subjects line or without the class-token line of
\* the method, parse_subject_file ends in
\* ValueError("subjects or db_prompts is None").
C8_MissingLineValueError ==
    (sout.kind # "none" /\ (~HasLine("subjects") \/ ~HasLine(ClassTokenVar)))
    => (sout.kind = "ValueError" /\ sout.msg = "subjects or db_prompts is None")

\* What the parts stand for: n, or a, a+1, ..., b, each less the offset.
RECURSIVE PartsList(_, _)
PartsList(ps, offset) ==
    IF ps = <<>> THEN <<>>
    ELSE LET p == Head(ps)
         IN [k \in 1 .. (p.b - p.a + 1) |-> p.a + (k - 1) - offset]
            \o PartsList(Tail(ps), offset)

WellFormed == \A k \in 1 .. Len(rparts) : rparts[k].kind \in {"single", "range"}

\* C9: on a string of parts n or a-b (a <= b), parse_range_str returns the
\* numbers the parts stand for, in part order, each less 1 when fix_1_offset
\* is true and as written when it is false.
C9_RangeList ==
    (rout.kind # "none" /\ WellFormed)
    => /\ rout.kind = "returned"
       /\ rout.value = PartsList(rparts, IF fix_1_offset THEN 1 ELSE 0)

\* C9 witness: "3-7,8,10" with the offset fix gives [2, 3, 4, 5, 6, 7, 9].
C9_Witness ==
    /\ range_str = <<"3", "-", "7", ",", "8", ",", "1", "0">>
    /\ fix_1_offset
    /\ rout.kind = "returned"
    /\ rout.value = <<2, 3, 4, 5, 6, 7, 9>>

\* C10: a sentinel returned to calc_arcface_align_loss carries a non-empty
\* failed list, and lines 110-114 are never reached with a None embedding.
C10_NoneNeverMeasured ==
    /\ (call = "loss" /\ pc = "ret" /\ ~eret.fg.some) => Len(eret.failed) > 0
    /\ (call = "loss" /\ pc \in {"tile", "cosine"})
       => (ref_fg_faces_emb.some /\ genRes.fg.some)

====
